---- MODULE Spec2Model ----
(***************************************************************************)
(* A model of the qf3 dashboard: the three page-fetch loops of             *)
(* src/qf3_api.py and src/qfactory_client.py, the join index and the       *)
(* enrichment of head records, the AND-token item-name filter, the         *)
(* one-sheet report writer and the query cycle of the Streamlit script     *)
(* src/app.py.                                                             *)
(*                                                                         *)
(* Python dicts are functions whose DOMAIN is the set of keys present.     *)
(* Python strings that the code takes apart (the item-name query, the item *)
(* names) are sequences of one-character strings; the other strings are    *)
(* TLA+ strings.  Python's None is the reserved string None below.         *)
(***************************************************************************)
EXTENDS Integers, Sequences, FiniteSets, TLC

VARIABLES
  \* ---- the fetch loops (fetch_all_heads, build_job_equipment_map, list_items_all)
  loop,        \* which loop is running: "heads", "jobs" or "items"
  backend,     \* heads: the remote head list, page number -> HTTP response
  page,        \* local `page`
  all_rows,    \* local `all_rows` (heads, items)
  mp,          \* local `mp` (jobs)
  total,       \* local `total` (jobs, items): <<>> is None or not yet set, else <<n>>
  pc,          \* "loop" inside the while, "returned" after return, "raised" on exception
  reqs,        \* history: the page numbers requested, in request order
  resps,       \* history (items): the JSON bodies received, in order
  recv,        \* history (jobs): the number of rows received over all pages so far
  lastOf,      \* history (jobs): non-empty jobName -> triple of the last processed row carrying it
  overwrote    \* history (jobs): a processed row carried a jobName seen before with other equipment

VARIABLES
  \* ---- attach_equipment_to_heads and _filter_heads_by_item_name, called on their own
  heads,       \* argument `heads`
  job_mp,      \* argument `job_mp`
  item_name_q, \* argument `item_name_q`
  out,         \* the list returned
  pcP          \* "call" before the call, "returned" / "raised" after it

VARIABLES
  \* ---- _excel_one_sheet_item_then_results
  heads2,      \* argument `heads2`
  lines,       \* the remote line list: mfgInspectionId -> HTTP response
  ws,          \* the worksheet: its rows, top to bottom, each with cells and fill
  row_num,     \* local `row_num`
  done,        \* heads2 records the for loop has finished
  progress,    \* history: the (i, total) pairs handed to progress_cb
  pcX          \* "start", "loop", "returned" (bytes handed back) or "raised"

VARIABLES
  \* ---- app.py: st.session_state and one run of the script
  logged_in,                   \* session_state.logged_in
  client,                      \* session_state.client
  head_rows,                   \* session_state.head_rows
  head_df,                     \* session_state.head_df: [columns, rows]
  selected_mfgInspectionId,    \* session_state.selected_mfgInspectionId: <<>> for None, else <<id>>
  line_df,                     \* session_state.line_df
  pcA,         \* the section of the script the current run has reached
  do_query,    \* the query button's value in the current run
  cycle,       \* history: what this run's login, then its query, was given and answered
  messages,    \* the st.error / st.success boxes shown in the current run
  export       \* what this run's export handler did

fetchVars ==
  <<loop, backend, page, all_rows, mp, total, pc, reqs, resps, recv, lastOf, overwrote>>
pureVars == <<heads, job_mp, item_name_q, out, pcP>>

excelVars == <<heads2, lines, ws, row_num, done, progress, pcX>>

sessionVars == <<head_rows, head_df, selected_mfgInspectionId, line_df>>
appVars == <<logged_in, client, sessionVars, pcA, do_query, cycle, messages, export>>

nonFetchVars == <<pureVars, excelVars, appVars>>
nonPureVars == <<fetchVars, excelVars, appVars>>
nonExcelVars == <<fetchVars, pureVars, appVars>>
nonAppVars == <<fetchVars, pureVars, excelVars>>

vars == <<fetchVars, pureVars, excelVars, appVars>>

\* ------------------------------------------------------------------ bounds
max_pages == 3      \* the loops' max_pages parameter (999 / 9999 by default)
MaxRows == 2        \* most rows a backend page carries
MaxCnt == 4         \* largest total a backend reports
limit == 2          \* list_items_all's page size parameter (500 by default)

\* ------------------------------------------------------------------ values
None == "<None>"

\* dict.get(k): the value, or None when the key is absent
Get(d, k) == IF k \in DOMAIN d THEN d[k] ELSE None

\* dict.get(k, dflt)
GetD(d, k, dflt) == IF k \in DOMAIN d THEN d[k] ELSE dflt

\* An HTTP response: raise_for_status() raises on status >= 400, else .json()
HttpError == [status |-> 500]
Ok(body) == [status |-> 200, json |-> body]
Raises(r) == r.status >= 400

\* the envelope {"data": {"list": rows}}
Envelope(rows) == [data |-> [list |-> rows]]
\* an envelope without a "data" key
BareEnvelope == [success |-> TRUE]

\* ------------------------------------------------------------------ QF3Client helpers
\* (resp or {}).get("data", {}).get("list", []) or []
_extract_list(resp) ==
  LET data == GetD(resp, "data", <<>>)
  IN GetD(data, "list", <<>>)

\* 0 for an empty list, else int(lst[0].get("cnt", len(lst)) or len(lst))
_extract_total(resp) ==
  LET lst == _extract_list(resp)
  IN IF lst = <<>> THEN 0
     ELSE LET c == GetD(lst[1], "cnt", Len(lst))
          IN IF c = 0 THEN Len(lst) ELSE c

\* ------------------------------------------------------------------ fetch_all_heads
\* (mutant) the total check runs before the page's rows are appended
HeadsBody_DropLast(pg, acc, r) ==
  IF Raises(r) THEN [page |-> pg, all_rows |-> acc, pc |-> "raised"]
  ELSE LET rows == _extract_list(r.json)
       IN IF rows = <<>> THEN [page |-> pg, all_rows |-> acc, pc |-> "returned"]
          ELSE IF Len(acc) + Len(rows) >= _extract_total(r.json)
               THEN [page |-> pg, all_rows |-> acc, pc |-> "returned"]
               ELSE [page |-> pg + 1, all_rows |-> acc \o rows, pc |-> "loop"]

\* (mutant) `>` where the code has `>=`
HeadsBody_Strict(pg, acc, r) ==
  IF Raises(r) THEN [page |-> pg, all_rows |-> acc, pc |-> "raised"]
  ELSE LET rows == _extract_list(r.json)
       IN IF rows = <<>> THEN [page |-> pg, all_rows |-> acc, pc |-> "returned"]
          ELSE LET acc2 == acc \o rows
               IN IF Len(acc2) > _extract_total(r.json)
                  THEN [page |-> pg, all_rows |-> acc2, pc |-> "returned"]
                  ELSE [page |-> pg + 1, all_rows |-> acc2, pc |-> "loop"]

\* One pass through the body of `while page <= max_pages` with the response r
\* of head_list(page): the locals after it and where control goes.
HeadsBody(pg, acc, r) ==
  IF Raises(r) THEN [page |-> pg, all_rows |-> acc, pc |-> "raised"]
  ELSE LET rows == _extract_list(r.json)
       IN IF rows = <<>> THEN [page |-> pg, all_rows |-> acc, pc |-> "returned"]
          ELSE LET acc2 == acc \o rows
               IN IF Len(acc2) >= _extract_total(r.json)
                  THEN [page |-> pg, all_rows |-> acc2, pc |-> "returned"]
                  ELSE [page |-> pg + 1, all_rows |-> acc2, pc |-> "loop"]

\* The remote head list.  A page is an HTTP error, a body without "data", or
\* a list of n rows; the rows of a page all carry the same cnt, or none.  The
\* code compares cnt only with the number of rows received so far, so a page's
\* cnt is drawn relative to the rows served up to and including that page:
\* absent, 0, equal to them, or one more (a page without cnt, or with cnt 0,
\* after the first already makes the total smaller than the rows received).
CntRels == {"none", "zero", "equal", "more"}

PageShapes ==
  {[kind |-> "error", n |-> 0, rel |-> "none"], [kind |-> "bare", n |-> 0, rel |-> "none"],
   [kind |-> "list", n |-> 0, rel |-> "none"]}
  \cup [kind : {"list"}, n : 1..MaxRows, rel : CntRels]

\* rows served by pages 1..p of the backend of shapes sh
RECURSIVE Served(_, _)
Served(sh, p) == IF p = 0 THEN 0 ELSE Served(sh, p - 1) + sh[p].n

CntOf(rel, served) ==
  CASE rel = "zero" -> 0
    [] rel = "equal" -> served
    [] rel = "more" -> served + 1
    [] OTHER -> -1

\* row i of page p; c = -1: the row has no cnt key
HeadRow(p, i, c) ==
  IF c < 0 THEN [mfgInspectionId |-> (p - 1) * MaxRows + i]
  ELSE [mfgInspectionId |-> (p - 1) * MaxRows + i, cnt |-> c]

HeadPage(p, n, c) == [i \in 1..n |-> HeadRow(p, i, c)]

HeadResponse(p, s, served) ==
  CASE s.kind = "error" -> HttpError
    [] s.kind = "bare" -> Ok(BareEnvelope)
    [] OTHER -> Ok(Envelope(HeadPage(p, s.n, CntOf(s.rel, served))))

HeadBackend(sh) == [p \in 1..max_pages |-> HeadResponse(p, sh[p], Served(sh, p))]

\* head_list(page=page): the request goes out and the backend answers
head_list(pg) == backend[pg]

HeadsStep ==
  /\ loop = "heads" /\ pc = "loop" /\ page <= max_pages
  /\ LET st == HeadsBody(page, all_rows, head_list(page))
     IN /\ page' = st.page
        /\ all_rows' = st.all_rows
        /\ pc' = st.pc
  /\ reqs' = Append(reqs, page)
  /\ UNCHANGED <<loop, backend, mp, total, resps, recv, lastOf, overwrote>>
  /\ UNCHANGED nonFetchVars

\* the while condition fails: return all_rows
HeadsExhausted ==
  /\ loop = "heads" /\ pc = "loop" /\ page > max_pages
  /\ pc' = "returned"
  /\ UNCHANGED <<loop, backend, page, all_rows, mp, total, reqs, resps, recv, lastOf, overwrote>>
  /\ UNCHANGED nonFetchVars

\* ------------------------------------------------------------------ build_job_equipment_map
\* Python truthiness of a string-or-None value: `if not jn: continue`
Truthy(v) == v # None /\ v # ""

\* the value stored for a row: its three equipment fields, None where absent
EquipOf(r) ==
  [workcenterName |-> Get(r, "workcenterName"),
   machineName |-> Get(r, "machineName"),
   resourceName |-> Get(r, "resourceName")]

\* mp[jn] = v
DictSet(d, k, v) == [x \in DOMAIN d \cup {k} |-> IF x = k THEN v ELSE d[x]]

\* (mutant) first write wins: a name already in the map keeps its value
StoreRow_KeepFirst(m, r) ==
  LET jn == Get(r, "jobName")
  IN IF ~Truthy(jn) \/ jn \in DOMAIN m THEN m ELSE DictSet(m, jn, EquipOf(r))

\* the body of `for r in rows` applied to one row
StoreRow(m, r) ==
  LET jn == Get(r, "jobName")
  IN IF ~Truthy(jn) THEN m ELSE DictSet(m, jn, EquipOf(r))

\* `for r in rows: ...` from row i on
RECURSIVE StoreRows(_, _, _)
StoreRows(m, rows, i) ==
  IF i > Len(rows) THEN m ELSE StoreRows(StoreRow(m, rows[i]), rows, i + 1)

\* (mutant) the loop forgets `page += 1`
JobsBody_NoAdvance(pg, m, r) ==
  IF Raises(r) THEN [page |-> pg, mp |-> m, pc |-> "raised"]
  ELSE LET rows == _extract_list(r.json)
       IN IF rows = <<>> THEN [page |-> pg, mp |-> m, pc |-> "returned"]
          ELSE LET m2 == StoreRows(m, rows, 1)
               IN IF Cardinality(DOMAIN m2) >= _extract_total(r.json)
                  THEN [page |-> pg, mp |-> m2, pc |-> "returned"]
                  ELSE [page |-> pg, mp |-> m2, pc |-> "loop"]

\* One pass through the body of `while page <= max_pages` with the response r
\* of joborder_list(page).
JobsBody(pg, m, r) ==
  IF Raises(r) THEN [page |-> pg, mp |-> m, pc |-> "raised"]
  ELSE LET rows == _extract_list(r.json)
       IN IF rows = <<>> THEN [page |-> pg, mp |-> m, pc |-> "returned"]
          ELSE LET m2 == StoreRows(m, rows, 1)
               IN IF Cardinality(DOMAIN m2) >= _extract_total(r.json)
                  THEN [page |-> pg, mp |-> m2, pc |-> "returned"]
                  ELSE [page |-> pg + 1, mp |-> m2, pc |-> "loop"]

\* What the job-order list answers.  A row has no jobName key, an empty
\* jobName, or one of two names with a full equipment triple or a partial one
\* holding a null; the rows of a page all carry the same cnt, or none, drawn
\* relative to the rows served so far as for the head list.
JobRowOpts ==
  {[workcenterName |-> "WC1"], [jobName |-> "", workcenterName |-> "WC1"]}
  \cup {[jobName |-> jn, workcenterName |-> "WC1", machineName |-> "M1", resourceName |-> "R1"] :
          jn \in {"J1", "J2"}}
  \cup {[jobName |-> "J1", workcenterName |-> "WC2", machineName |-> None]}

WithKey(d, k, v) == [x \in DOMAIN d \cup {k} |-> IF x = k THEN v ELSE d[x]]

JobRow(r, c) == IF c < 0 THEN r ELSE WithKey(r, "cnt", c)

JobPage(rs, c) == [i \in 1..Len(rs) |-> JobRow(rs[i], c)]

\* history: the rows of a page, seen as "the last row carrying each name"
NamedRows(rows, k) == {i \in 1..Len(rows) : Get(rows[i], "jobName") = k}
Max(S) == CHOOSE x \in S : \A y \in S : y <= x
LastOfAfter(lo, rows) ==
  LET names == {Get(rows[i], "jobName") : i \in 1..Len(rows)} \ {None, ""}
  IN [k \in DOMAIN lo \cup names |->
        IF k \in names THEN EquipOf(rows[Max(NamedRows(rows, k))]) ELSE lo[k]]

Overwrites(lo, rows) ==
  \E i \in 1..Len(rows) :
    LET k == Get(rows[i], "jobName")
    IN /\ k \notin {None, ""}
       /\ \/ k \in DOMAIN lo /\ lo[k] # EquipOf(rows[i])
          \/ \E j \in 1..(i - 1) :
               Get(rows[j], "jobName") = k /\ EquipOf(rows[j]) # EquipOf(rows[i])

\* joborder_list(page=page) answers r: one pass through the loop body
JobsOn(r) ==
  LET st == JobsBody(page, mp, r)
      rows == IF Raises(r) THEN <<>> ELSE _extract_list(r.json)
  IN /\ page' = st.page
     /\ mp' = st.mp
     /\ pc' = st.pc
     /\ recv' = recv + Len(rows)
     /\ lastOf' = LastOfAfter(lastOf, rows)
     /\ overwrote' = (overwrote \/ Overwrites(lastOf, rows))
     /\ reqs' = Append(reqs, page)
     /\ total' = IF rows = <<>> THEN total ELSE <<_extract_total(r.json)>>
     /\ UNCHANGED <<loop, backend, all_rows, resps>>
     /\ UNCHANGED nonFetchVars

JobsStep ==
  /\ loop = "jobs" /\ pc = "loop" /\ page <= max_pages
  /\ \/ \E r \in {HttpError, Ok(BareEnvelope), Ok(Envelope(<<>>))} : JobsOn(r)
     \/ \E n \in 1..MaxRows, rel \in CntRels :
          \E rs \in [1..n -> JobRowOpts] :
            JobsOn(Ok(Envelope(JobPage(rs, CntOf(rel, recv + n)))))

JobsExhausted ==
  /\ loop = "jobs" /\ pc = "loop" /\ page > max_pages
  /\ pc' = "returned"
  /\ UNCHANGED <<loop, backend, page, all_rows, mp, total, reqs, resps, recv, lastOf, overwrote>>
  /\ UNCHANGED nonFetchVars

\* ------------------------------------------------------------------ list_items_all
ROWS_PATHS ==
  << <<"data", "list">>, <<"data", "rows">>, <<"data", "items">>,
     <<"result", "list">>, <<"result", "rows">>,
     <<"list">>, <<"rows">>, <<"items">> >>

\* the walk `for k in path` of extract_rows: does the path lead somewhere
PathOk(resp, path) ==
  /\ path[1] \in DOMAIN resp
  /\ Len(path) = 2 => path[2] \in DOMAIN resp[path[1]]

PathValue(resp, path) ==
  IF Len(path) = 2 THEN resp[path[1]][path[2]] ELSE resp[path[1]]

\* the first path that resolves, else [] (the envelopes modelled carry their
\* list under one of the known paths, so the heuristic fallback finds nothing)
RECURSIVE RowsFrom(_, _)
RowsFrom(resp, i) ==
  IF i > Len(ROWS_PATHS) THEN <<>>
  ELSE IF PathOk(resp, ROWS_PATHS[i]) THEN PathValue(resp, ROWS_PATHS[i])
  ELSE RowsFrom(resp, i + 1)

extract_rows(resp) == RowsFrom(resp, 1)

TOTAL_KEYS == <<"total", "count", "recordsTotal", "totalCount">>

\* the first top-level total key holding an int, else data.total, else None;
\* None is <<>> and the int n is <<n>>
RECURSIVE TotalFrom(_, _)
TotalFrom(resp, i) ==
  IF i > Len(TOTAL_KEYS)
  THEN IF "data" \in DOMAIN resp /\ "total" \in DOMAIN resp.data
       THEN <<resp.data.total>> ELSE <<>>
  ELSE IF TOTAL_KEYS[i] \in DOMAIN resp THEN <<resp[TOTAL_KEYS[i]]>>
  ELSE TotalFrom(resp, i + 1)

extract_total(resp) == TotalFrom(resp, 1)

\* (mutant) every response that reports a total replaces the one held
ItemsBody_Relatch(pg, acc, tot, r) ==
  IF Raises(r) THEN [page |-> pg, all_rows |-> acc, total |-> tot, pc |-> "raised"]
  ELSE LET tot2 == IF extract_total(r.json) # <<>> THEN extract_total(r.json) ELSE tot
           rows == extract_rows(r.json)
           acc2 == acc \o rows
       IN IF tot2 # <<>> /\ Len(acc2) >= tot2[1]
          THEN [page |-> pg, all_rows |-> acc2, total |-> tot2, pc |-> "returned"]
          ELSE IF Len(rows) < limit
          THEN [page |-> pg, all_rows |-> acc2, total |-> tot2, pc |-> "returned"]
          ELSE [page |-> pg + 1, all_rows |-> acc2, total |-> tot2, pc |-> "loop"]

\* One pass through the body of `while page <= max_pages` with the response r
\* of list_items_page(page).
ItemsBody(pg, acc, tot, r) ==
  IF Raises(r) THEN [page |-> pg, all_rows |-> acc, total |-> tot, pc |-> "raised"]
  ELSE LET tot2 == IF tot = <<>> THEN extract_total(r.json) ELSE tot
           rows == extract_rows(r.json)
           acc2 == acc \o rows
       IN IF tot2 # <<>> /\ Len(acc2) >= tot2[1]
          THEN [page |-> pg, all_rows |-> acc2, total |-> tot2, pc |-> "returned"]
          ELSE IF Len(rows) < limit
          THEN [page |-> pg, all_rows |-> acc2, total |-> tot2, pc |-> "returned"]
          ELSE [page |-> pg + 1, all_rows |-> acc2, total |-> tot2, pc |-> "loop"]

ItemPage(p, n) == [i \in 1..n |-> [itemCode |-> (p - 1) * MaxRows + i]]

\* the shapes of item-list body the backend answers with: the total at the top
\* level beside "rows", under "data" beside "list", as "count", or not at all
ItemResponses(p) ==
  {HttpError}
  \cup {Ok(Envelope(ItemPage(p, n))) : n \in 0..MaxRows}
  \cup {Ok([total |-> t, rows |-> ItemPage(p, n)]) : n \in 0..MaxRows, t \in 0..MaxCnt}
  \cup {Ok([count |-> t, items |-> ItemPage(p, n)]) : n \in 0..MaxRows, t \in 0..MaxCnt}
  \cup {Ok([data |-> [total |-> t, list |-> ItemPage(p, n)]]) :
          n \in 0..MaxRows, t \in 0..MaxCnt}

ItemsStep ==
  /\ loop = "items" /\ pc = "loop" /\ page <= max_pages
  /\ \E r \in ItemResponses(page) :
       LET st == ItemsBody(page, all_rows, total, r)
       IN /\ page' = st.page
          /\ all_rows' = st.all_rows
          /\ total' = st.total
          /\ pc' = st.pc
          /\ resps' = IF Raises(r) THEN resps ELSE Append(resps, r.json)
  /\ reqs' = Append(reqs, page)
  /\ UNCHANGED <<loop, backend, mp, recv, lastOf, overwrote>>
  /\ UNCHANGED nonFetchVars

ItemsExhausted ==
  /\ loop = "items" /\ pc = "loop" /\ page > max_pages
  /\ pc' = "returned"
  /\ UNCHANGED <<loop, backend, page, all_rows, mp, total, reqs, resps, recv, lastOf, overwrote>>
  /\ UNCHANGED nonFetchVars

\* ------------------------------------------------------------------ specifications
\* no fetch loop is running
FetchIdle ==
  /\ loop = "none" /\ backend = <<>> /\ page = 1 /\ all_rows = <<>> /\ mp = <<>>
  /\ total = <<>> /\ pc = "idle" /\ reqs = <<>> /\ resps = <<>> /\ recv = 0
  /\ lastOf = <<>> /\ overwrote = FALSE

\* no stand-alone call of the enricher or the filter
PureIdle ==
  /\ heads = <<>> /\ job_mp = <<>> /\ item_name_q = <<>> /\ out = <<>> /\ pcP = "idle"

\* no report is being written
ExcelIdle ==
  /\ heads2 = <<>> /\ lines = <<>> /\ ws = <<>> /\ row_num = 0 /\ done = 0
  /\ progress = <<>> /\ pcX = "idle"

\* the page is not open
NoCycle == [kind |-> "none"]
NoExport ==
  [stage |-> "none", records |-> 0, shaped |-> FALSE, line_reqs |-> 0, sheet_rows |-> 0,
   download |-> FALSE]
AppIdle ==
  /\ logged_in = FALSE /\ client = None /\ head_rows = <<>>
  /\ head_df = [columns |-> <<>>, rows |-> <<>>] /\ selected_mfgInspectionId = <<>>
  /\ line_df = [columns |-> <<>>, rows |-> <<>>] /\ pcA = "idle" /\ do_query = FALSE
  /\ cycle = NoCycle /\ messages = {} /\ export = NoExport

FetchInit ==
  /\ PureIdle /\ ExcelIdle /\ AppIdle
  /\ loop \in {"heads", "jobs", "items"}
  /\ \/ loop = "heads" /\ \E sh \in [1..max_pages -> PageShapes] : backend = HeadBackend(sh)
     \/ loop # "heads" /\ backend = <<>>
  /\ page = 1
  /\ all_rows = <<>>
  /\ mp = <<>>
  /\ total = <<>>
  /\ pc = "loop"
  /\ reqs = <<>>
  /\ resps = <<>>
  /\ recv = 0
  /\ lastOf = <<>>
  /\ overwrote = FALSE

FetchNext ==
  \/ HeadsStep \/ HeadsExhausted
  \/ JobsStep \/ JobsExhausted
  \/ ItemsStep \/ ItemsExhausted

SpecFetch == FetchInit /\ [][FetchNext]_vars
\* ------------------------------------------------------------------ attach_equipment_to_heads
\* a jobName that is a JSON list or object: truthy, and unhashable as a dict key
Unhashable == "<unhashable>"

\* `x or ""`
OrEmpty(v) == IF v = None THEN "" ELSE v

\* the strings joined by " / ": the joined string is kept as its parts
JoinParts(parts) == SelectSeq(parts, LAMBDA x : x # "")

\* (mutant) the copy keeps a field the head row already had
attach_one_KeepOld(h, jmp) ==
  LET jn == Get(h, "jobName")
      eq == IF Truthy(jn) THEN GetD(jmp, jn, <<>>) ELSE <<>>
      h2 == [k \in DOMAIN h \cup {"workcenterName", "machineName", "resourceName"} |->
               IF k \in DOMAIN h THEN h[k] ELSE Get(eq, k)]
  IN WithKey(h2, "equipmentDisplay",
             JoinParts(<<OrEmpty(h2.workcenterName), OrEmpty(h2.machineName),
                         OrEmpty(h2.resourceName)>>))

\* the body of `for h in heads`: the copy h2 that is appended to out
attach_one(h, jmp) ==
  LET jn == Get(h, "jobName")
      eq == IF Truthy(jn) THEN GetD(jmp, jn, <<>>) ELSE <<>>
      h2a == WithKey(h, "workcenterName", Get(eq, "workcenterName"))
      h2b == WithKey(h2a, "machineName", Get(eq, "machineName"))
      h2 == WithKey(h2b, "resourceName", Get(eq, "resourceName"))
      wc == OrEmpty(Get(h2, "workcenterName"))
      mc == OrEmpty(Get(h2, "machineName"))
      rs == OrEmpty(Get(h2, "resourceName"))
  IN WithKey(h2, "equipmentDisplay", JoinParts(<<wc, mc, rs>>))

\* job_mp.get(jn, {}) raises TypeError on an unhashable jn
AttachRaises(hs) == \E i \in 1..Len(hs) : Get(hs[i], "jobName") = Unhashable

\* `for h in heads: ... out.append(h2)` from record i on
RECURSIVE AttachFrom(_, _, _, _)
AttachFrom(hs, jmp, i, acc) ==
  IF i > Len(hs) THEN acc
  ELSE AttachFrom(hs, jmp, i + 1, Append(acc, attach_one(hs[i], jmp)))

attach_equipment_to_heads(hs, jmp) == AttachFrom(hs, jmp, 1, <<>>)

\* (mutant) `h2 = h`: the stores on h2 land in the caller's record
loop_pass_Alias(h, jmp) == [h |-> attach_one(h, jmp), job_mp |-> jmp]

\* The objects a pass of the loop body touches, as it leaves them: h2 = dict(h)
\* is a new dict and takes every store, h is only read, and job_mp is only
\* read with .get.
loop_pass(h, jmp) == [h |-> h, job_mp |-> jmp]

\* the caller's list and index after the loop, run from record i on with the
\* records before it as acc; the loop ends early where .get raises
RECURSIVE ArgumentsAfter(_, _, _, _)
ArgumentsAfter(hs, jmp, i, acc) ==
  IF i > Len(hs) THEN [heads |-> acc, job_mp |-> jmp]
  ELSE IF Get(hs[i], "jobName") = Unhashable
       THEN [heads |-> acc \o SubSeq(hs, i, Len(hs)), job_mp |-> jmp]
       ELSE LET st == loop_pass(hs[i], jmp)
            IN ArgumentsAfter(hs, st.job_mp, i + 1, Append(acc, st.h))

\* the indexes build_job_equipment_map can return over the job-order rows modelled
IndexValues == {EquipOf(r) : r \in {x \in JobRowOpts : Truthy(Get(x, "jobName"))}}
JobMaps == UNION {[S -> IndexValues] : S \in SUBSET {"J1", "J2"}}

\* the head records handed to the enricher: jobName absent, null, empty, a
\* name, or unhashable; with or without a workcenterName of their own
MaxHeads == 2
HeadJobNames == {"-", None, "", "J1", "J2", Unhashable}     \* "-": no jobName key
EnrichHead(i, jn, own) ==
  LET h0 == [mfgInspectionId |-> i, itemCode |-> "IC"]
      h1 == IF jn = "-" THEN h0 ELSE WithKey(h0, "jobName", jn)
  IN IF own THEN WithKey(h1, "workcenterName", "OLD") ELSE h1
EnrichInputs ==
  UNION {{[i \in 1..n |-> EnrichHead(i, jn[i], own[i])] :
            jn \in [1..n -> HeadJobNames], own \in [1..n -> BOOLEAN]} : n \in 0..MaxHeads}

Attach ==
  /\ pcP = "call_attach"
  /\ IF AttachRaises(heads)
     THEN pcP' = "raised" /\ out' = out
     ELSE pcP' = "returned" /\ out' = attach_equipment_to_heads(heads, job_mp)
  /\ heads' = ArgumentsAfter(heads, job_mp, 1, <<>>).heads
  /\ job_mp' = ArgumentsAfter(heads, job_mp, 1, <<>>).job_mp
  /\ UNCHANGED item_name_q
  /\ UNCHANGED nonPureVars

EnrichInit ==
  /\ FetchIdle /\ ExcelIdle /\ AppIdle
  /\ heads \in EnrichInputs
  /\ job_mp \in JobMaps
  /\ item_name_q = <<>>
  /\ out = <<>>
  /\ pcP = "call_attach"

EnrichNext == Attach

SpecEnrich == EnrichInit /\ [][EnrichNext]_vars

\* ------------------------------------------------------------------ _parse_and_tokens, _filter_heads_by_item_name
\* None for a field whose values are character sequences
NoneSeq == <<None>>

\* str.lower() on the characters modelled
Lower(c) == CASE c = "A" -> "a" [] c = "B" -> "b" [] OTHER -> c
LowerStr(str) == [i \in 1..Len(str) |-> Lower(str[i])]

\* str.strip(): leading whitespace off, then trailing whitespace off
RECURSIVE LStrip(_)
LStrip(str) == IF str # <<>> /\ Head(str) = " " THEN LStrip(Tail(str)) ELSE str
RECURSIVE RStrip(_)
RStrip(str) ==
  IF str # <<>> /\ str[Len(str)] = " " THEN RStrip(SubSeq(str, 1, Len(str) - 1)) ELSE str
Strip(str) == RStrip(LStrip(str))

\* str.split("%"): the pieces between delimiters, empty ones included
RECURSIVE SplitFrom(_, _, _, _)
SplitFrom(str, i, cur, acc) ==
  IF i > Len(str) THEN Append(acc, cur)
  ELSE IF str[i] = "%" THEN SplitFrom(str, i + 1, <<>>, Append(acc, cur))
  ELSE SplitFrom(str, i + 1, Append(cur, str[i]), acc)
Split(str) == SplitFrom(str, 1, <<>>, <<>>)

\* (mutant) the pieces are not stripped
_parse_and_tokens_NoPieceStrip(q) ==
  LET q1 == Strip(q)
  IN IF q1 = <<>> THEN <<>>
     ELSE SelectSeq(Split(q1), LAMBDA x : x # <<>>)

_parse_and_tokens(q) ==
  LET q1 == Strip(q)
  IN IF q1 = <<>> THEN <<>>
     ELSE LET pieces == Split(q1)
              parts == [i \in 1..Len(pieces) |-> Strip(pieces[i])]
          IN SelectSeq(parts, LAMBDA x : x # <<>>)

\* `t in name`: t is a substring of name
IsSubstring(t, name) ==
  \E k \in 0..(Len(name) - Len(t)) : SubSeq(name, k + 1, k + Len(t)) = t

\* `for t in tokens: if t.lower() not in name_l: ok = False; break`, from token j on
RECURSIVE TokensOk(_, _, _)
TokensOk(tokens, name_l, j) ==
  IF j > Len(tokens) THEN TRUE
  ELSE IF ~IsSubstring(LowerStr(tokens[j]), name_l) THEN FALSE
  ELSE TokensOk(tokens, name_l, j + 1)

\* h.get("itemName") or ""
ItemNameOf(h) ==
  IF "itemName" \in DOMAIN h /\ h.itemName # NoneSeq THEN h.itemName ELSE <<>>

\* `for h in heads: ... if ok: out.append(h)`, from record i on
RECURSIVE FilterFrom(_, _, _, _)
FilterFrom(hs, tokens, i, acc) ==
  IF i > Len(hs) THEN acc
  ELSE FilterFrom(hs, tokens, i + 1,
                  IF TokensOk(tokens, LowerStr(ItemNameOf(hs[i])), 1)
                  THEN Append(acc, hs[i]) ELSE acc)

\* (mutant) no tokens: an empty list comes back instead of the input
_filter_heads_by_item_name_EmptyOnNoTokens(hs, q) ==
  LET tokens == _parse_and_tokens(q)
  IN IF tokens = <<>> THEN <<>> ELSE FilterFrom(hs, tokens, 1, <<>>)

_filter_heads_by_item_name(hs, q) ==
  LET tokens == _parse_and_tokens(q)
  IN IF tokens = <<>> THEN hs ELSE FilterFrom(hs, tokens, 1, <<>>)

\* the queries typed: strings over an upper-case letter, a lower-case letter,
\* the delimiter and the blank
MaxQLen == 3
QChars == {"A", "b", "%", " "}
Queries == UNION {[1..n -> QChars] : n \in 0..MaxQLen}

\* the item names of the head records: no itemName key, null, and names that
\* hold one of the letters, both adjacent, or both in the other order
NoKey == <<"<absent>">>
ItemNameOpts == {NoKey, NoneSeq, <<"a">>, <<"a", "B">>, <<"B", "a">>}
FilterHead(i, nm) ==
  IF nm = NoKey THEN [mfgInspectionId |-> i]
  ELSE [mfgInspectionId |-> i, itemName |-> nm]
FilterInputs ==
  UNION {{[i \in 1..n |-> FilterHead(i, nm[i])] : nm \in [1..n -> ItemNameOpts]} :
           n \in 0..MaxHeads}

Filter ==
  /\ pcP = "call_filter"
  /\ pcP' = "returned"
  /\ out' = _filter_heads_by_item_name(heads, item_name_q)
  /\ UNCHANGED <<heads, job_mp, item_name_q>>
  /\ UNCHANGED nonPureVars

FilterInit ==
  /\ FetchIdle /\ ExcelIdle /\ AppIdle
  /\ heads \in FilterInputs
  /\ job_mp = <<>>
  /\ item_name_q \in Queries
  /\ out = <<>>
  /\ pcP = "call_filter"

FilterNext == Filter

SpecFilter == FilterInit /\ [][FilterNext]_vars

\* ------------------------------------------------------------------ _excel_one_sheet_item_then_results
\* h.get(k) for a field whose values are character sequences
GetS(d, k) == IF k \in DOMAIN d THEN d[k] ELSE NoneSeq

\* The strings of workcenterName and createdBy are atoms without blanks
\* around them, so .strip() leaves them; equipmentDisplay is kept as the
\* parts joined by " / ", and split("/")[0].strip() is its first part.
_workcenter_from_head(h) ==
  LET wc == OrEmpty(Get(h, "workcenterName"))
      ed == GetD(h, "equipmentDisplay", <<>>)
  IN IF wc # "" THEN wc
     ELSE IF ed # <<>> THEN ed[1]
     ELSE OrEmpty(Get(h, "createdBy"))

\* the 11 column titles of row 1
columns ==
  <<"KIND", "ITEM_CODE", "ITEM_NAME", "WORKCENTER",
    "CHECK_ITEM", "VALUE", "UNIT", "STANDARD", "UPPER", "LOWER", "DECISION">>

\* the cell lists handed to ws.append; ITEM and CHECK are the labels of an
\* item row and of a result row, NO_RESULT the placeholder text
ItemCells(h) ==
  <<"ITEM", Get(h, "itemCode"), GetS(h, "itemName"), _workcenter_from_head(h),
    "", "", "", "", "", "", "">>
PlaceholderCells(h) ==
  <<"CHECK", Get(h, "itemCode"), GetS(h, "itemName"), _workcenter_from_head(h),
    "NO_RESULT", "", "", "", "", "", "">>
ResultCells(h, r) ==
  <<"CHECK", Get(h, "itemCode"), GetS(h, "itemName"), _workcenter_from_head(h),
    Get(r, "level3ClassName"), Get(r, "checkValue"), Get(r, "unit"),
    Get(r, "standardValue"), Get(r, "upperLimit"), Get(r, "lowerLimit"),
    Get(r, "passDecision")>>

\* ws.append(cells): a new row below the last row that holds a cell
WsAppend(sheet, cells) == Append(sheet, [cells |-> cells, fill |-> "none"])

\* ws.cell(row=r, column=1..11) with the fill set: reaching below the last
\* row creates the cells there, and the rows in between
RECURSIVE WsPad(_, _)
WsPad(sheet, r) ==
  IF Len(sheet) >= r THEN sheet ELSE WsPad(Append(sheet, [cells |-> <<>>, fill |-> "none"]), r)
WsFill(sheet, r, colour) ==
  LET padded == WsPad(sheet, r)
  IN [padded EXCEPT ![r] = [cells |-> padded[r].cells, fill |-> colour]]

\* `for r in rows_l: ws.append([...]); row_num += 1` from row j on
RECURSIVE AppendResults(_, _, _, _)
AppendResults(sheet, h, rows_l, j) ==
  IF j > Len(rows_l) THEN sheet
  ELSE AppendResults(WsAppend(sheet, ResultCells(h, rows_l[j])), h, rows_l, j + 1)

\* the item row: ws.append, the fill of row row_num, row_num += 1
EmitItemRow(sheet, rn, h) ==
  [ws |-> WsFill(WsAppend(sheet, ItemCells(h)), rn, "2F2F2F"), row_num |-> rn + 1]

\* (mutant) the blank row between items is still written
EmitResults_BlankRow(sheet, rn, h, rows_l) ==
  IF rows_l = <<>>
  THEN [ws |-> WsAppend(WsAppend(sheet, PlaceholderCells(h)), <<"", "", "", "", "", "", "", "", "", "", "">>),
        row_num |-> rn + 2]
  ELSE [ws |-> WsAppend(AppendResults(sheet, h, rows_l, 1), <<"", "", "", "", "", "", "", "", "", "", "">>),
        row_num |-> rn + Len(rows_l) + 1]

\* the result rows right below: the placeholder, or one row per line record
EmitResults(sheet, rn, h, rows_l) ==
  IF rows_l = <<>>
  THEN [ws |-> WsAppend(sheet, PlaceholderCells(h)), row_num |-> rn + 1]
  ELSE [ws |-> AppendResults(sheet, h, rows_l, 1), row_num |-> rn + Len(rows_l)]

\* client.line_list(mfg_inspection_id=mid, page=1, limit=500, node="root")
line_list(mid) == lines[mid]

\* Workbook(), ws.append(columns) and the header fill of row 1
NewSheet == WsFill(WsAppend(<<>>, columns), 1, "1F4E79")

\* the sheet is set up and row_num = 2
ExcelStart ==
  /\ pcX = "start"
  /\ ws' = NewSheet
  /\ row_num' = 2
  /\ pcX' = "loop"
  /\ UNCHANGED <<heads2, lines, done, progress>>
  /\ UNCHANGED nonExcelVars

\* one pass through `for i, h in enumerate(heads2, start=1)`
ExcelItem ==
  /\ pcX = "loop" /\ done < Len(heads2)
  /\ LET h == heads2[done + 1]
         mid == h.mfgInspectionId
         a == EmitItemRow(ws, row_num, h)
         resp_l == line_list(mid)
     IN IF Raises(resp_l)
        THEN /\ ws' = a.ws
             /\ row_num' = a.row_num
             /\ pcX' = "raised"
             /\ UNCHANGED <<done, progress>>
        ELSE LET b == EmitResults(a.ws, a.row_num, h, _extract_list(resp_l.json))
             IN /\ ws' = b.ws
                /\ row_num' = b.row_num
                /\ done' = done + 1
                /\ progress' = Append(progress, <<done + 1, Len(heads2)>>)
                /\ pcX' = "loop"
  /\ UNCHANGED <<heads2, lines>>
  /\ UNCHANGED nonExcelVars

\* the loop is over: column widths, freeze_panes, wb.save, return the bytes
ExcelSave ==
  /\ pcX = "loop" /\ done = Len(heads2)
  /\ pcX' = "returned"
  /\ UNCHANGED <<heads2, lines, ws, row_num, done, progress>>
  /\ UNCHANGED nonExcelVars

\* the records exported: enriched and filtered head records, with a
\* workcenter of their own, with only a machine in the display, or with neither
MaxLines == 2
ExcelHeadKinds == {"workcenter", "machine", "creator"}
ExcelHead(i, kind) ==
  LET h0 == [mfgInspectionId |-> i, itemCode |-> "IC", itemName |-> <<"a", "B">>,
             jobName |-> "J1", createdBy |-> "kim"]
  IN CASE kind = "workcenter" ->
            attach_one(h0, [J1 |-> [workcenterName |-> "WC1", machineName |-> "M1",
                                   resourceName |-> "R1"]])
       [] kind = "machine" ->
            attach_one(h0, [J1 |-> [workcenterName |-> None, machineName |-> "M1",
                                   resourceName |-> None]])
       [] OTHER -> attach_one(h0, <<>>)

LineRow(j) == [level3ClassName |-> "CHK", checkValue |-> "v" \o ToString(j), passDecision |-> "OK"]
LineResponses ==
  {HttpError, Ok(BareEnvelope)} \cup {Ok(Envelope([j \in 1..d |-> LineRow(j)])) : d \in 0..MaxLines}

ExcelInit ==
  /\ FetchIdle /\ PureIdle /\ AppIdle
  /\ \E n \in 1..MaxHeads :
       /\ \E kinds \in [1..n -> ExcelHeadKinds] : heads2 = [i \in 1..n |-> ExcelHead(i, kinds[i])]
       /\ lines \in [1..n -> LineResponses]
  /\ ws = <<>>
  /\ row_num = 0
  /\ done = 0
  /\ progress = <<>>
  /\ pcX = "start"

ExcelNext == ExcelStart \/ ExcelItem \/ ExcelSave

SpecExcel == ExcelInit /\ [][ExcelNext]_vars

\* ------------------------------------------------------------------ app.py: the script
\* The script runs top to bottom on every interaction.  A run is a walk
\* through its sections: login, the logged-in gate, the filter row with its
\* two buttons, the head table, the line table, the export button.

\* pd.DataFrame(): no columns, no rows
EmptyDF == [columns |-> <<>>, rows |-> <<>>]

\* session_state.selected_mfgInspectionId = None
NoSelection == <<>>

Range(f) == {f[i] : i \in DOMAIN f}

\* the cell of a record that lacks the column
MissingCell(c) == IF c = "itemName" THEN NoneSeq ELSE None

\* pd.DataFrame(rows or []), each missing column added as None, df[cols]
_df_from_rows(rows, cols) ==
  [columns |-> cols,
   rows |-> [i \in 1..Len(rows) |->
               [c \in Range(cols) |-> GetD(rows[i], c, MissingCell(c))]]]

head_cols ==
  <<"jobName", "operationNum", "operationCode", "itemCode", "itemName", "lotCode",
    "inspectionDate", "personName", "equipmentDisplay", "mfgInspectionName",
    "mfgInspectionId">>

line_cols ==
  <<"level2ClassName", "level3ClassName", "checkMethod", "checkDevice", "checkValue",
    "unit", "standardValue", "upperLimit", "lowerLimit", "passDecision", "createdBy",
    "creationDate">>

\* ---- what the backend may answer during a run.  Its lists are two pages
\* long at most (a page past the end is an empty list), one row a page.
AppPageNums == {1, 2}
PastEnd == Ok(Envelope(<<>>))

\* a head row: its id is its page; it names job J1, or carries a jobName that
\* is no string; c = -1: no cnt key.  The first page holds a named row that
\* ends the list or announces a second; the second a named or an unnamed one.
AppHeadRow(p, kind, c) ==
  LET h == [mfgInspectionId |-> p, itemCode |-> "IC",
            itemName |-> IF p = 1 THEN <<"a">> ELSE <<"a", "B">>,
            jobName |-> IF kind = "bad" THEN Unhashable ELSE "J1"]
  IN IF c < 0 THEN h ELSE WithKey(h, "cnt", c)
AppHeadPages(p) ==
  {HttpError, PastEnd}
  \cup IF p = 1 THEN {Ok(Envelope(<<AppHeadRow(p, "named", c)>>)) : c \in {-1, 2}}
       ELSE {Ok(Envelope(<<AppHeadRow(p, kind, -1)>>)) : kind \in {"named", "bad"}}
AppHeadBackends == {<<r1, r2>> : r1 \in AppHeadPages(1), r2 \in AppHeadPages(2)}

AppJobPages ==
  {HttpError, PastEnd}
  \cup {Ok(Envelope(<<JobRow(r, c)>>)) :
          r \in {x \in JobRowOpts : Get(x, "jobName") = "J1"}, c \in {-1, 2}}
AppJobBackends == {<<r1, r2>> : r1 \in AppJobPages, r2 \in AppJobPages}

AppLineResponses == {HttpError, PastEnd, Ok(Envelope(<<LineRow(1)>>))}

\* how a call ended: it raised, or it returned value
Raised == [raised |-> TRUE, value |-> <<>>]
Returned(v) == [raised |-> FALSE, value |-> v]
\* the call was not reached
NotCalled == Returned(<<>>)

PageOf(b, pg) == IF pg \in DOMAIN b THEN b[pg] ELSE PastEnd

\* build_job_equipment_map against the backend b, from page pg on
RECURSIVE RunJobs(_, _, _)
RunJobs(b, pg, m) ==
  LET st == JobsBody(pg, m, PageOf(b, pg))
  IN IF st.pc = "loop" THEN RunJobs(b, st.page, st.mp)
     ELSE IF st.pc = "raised" THEN Raised ELSE Returned(st.mp)

\* fetch_all_heads against the backend b, from page pg on
RECURSIVE RunHeads(_, _, _)
RunHeads(b, pg, acc) ==
  LET st == HeadsBody(pg, acc, PageOf(b, pg))
  IN IF st.pc = "loop" THEN RunHeads(b, st.page, st.all_rows)
     ELSE IF st.pc = "raised" THEN Raised ELSE Returned(st.all_rows)

\* client.head_list(page=1, ...) and _extract_list of what it answers
OnePage(b) == IF Raises(b[1]) THEN Raised ELSE Returned(_extract_list(b[1].json))

JobOutcomes == {RunJobs(b, 1, <<>>) : b \in AppJobBackends}
AllHeadsOutcomes == {RunHeads(b, 1, <<>>) : b \in AppHeadBackends}
OnePageOutcomes == {OnePage(b) : b \in AppHeadBackends}
HeadOutcomes(fetch_all) == IF fetch_all THEN AllHeadsOutcomes ELSE OnePageOutcomes

\* what is typed into the item-name box
AppQueries == {<<>>, <<"b">>, <<"A", "%", "b">>}

\* the try block up to head_df raises: in the job-order fetch, in the head
\* fetch, or in the enrichment
CycleFails(jo, ho) == jo.raised \/ ho.raised \/ AttachRaises(ho.value)

\* heads2 after the enrichment and the item-name filter
Heads2(jo, ho, q) ==
  _filter_heads_by_item_name(attach_equipment_to_heads(ho.value, jo.value), q)

\* (mutant) the selection and the line table are cleared before the remote calls
do_query_handler_ClearFirst(ss, jo, ho, q) ==
  IF CycleFails(jo, ho)
  THEN [ss EXCEPT !.selected_mfgInspectionId = NoSelection, !.line_df = EmptyDF]
  ELSE LET hs2 == Heads2(jo, ho, q)
       IN [head_rows |-> hs2,
           head_df |-> _df_from_rows(hs2, head_cols),
           selected_mfgInspectionId |-> NoSelection,
           line_df |-> EmptyDF]

\* `if do_query: try: ... except Exception`: the four session fields after it
do_query_handler(ss, jo, ho, q) ==
  IF CycleFails(jo, ho) THEN ss
  ELSE LET hs2 == Heads2(jo, ho, q)
       IN [head_rows |-> hs2,
           head_df |-> _df_from_rows(hs2, head_cols),
           selected_mfgInspectionId |-> NoSelection,
           line_df |-> EmptyDF]

Session ==
  [head_rows |-> head_rows, head_df |-> head_df,
   selected_mfgInspectionId |-> selected_mfgInspectionId, line_df |-> line_df]

\* QF3Client.login: raise_for_status, then `if not data.get("success")`
LoginResponses == {HttpError, Ok(BareEnvelope), Ok([success |-> FALSE]), Ok([message |-> "x"])}
login_raises(r) == Raises(r) \/ GetD(r.json, "success", FALSE) # TRUE

\* the boxes are not all filled: no request is sent
NoRequest == [status |-> 0]

\* (mutant) the except branch only shows the error
login_handler_KeepSession(filled, r, was) ==
  IF ~filled \/ login_raises(r)
  THEN [logged_in |-> was.logged_in, client |-> was.client, message |-> "login failed"]
  ELSE [logged_in |-> TRUE, client |-> "QF3Client", message |-> "login ok"]

\* the login button's try block and its except branch: logged_in and client
\* after it, and the box shown; was: the two fields before it
login_handler(filled, r, was) ==
  IF ~filled \/ login_raises(r)
  THEN [logged_in |-> FALSE, client |-> None, message |-> "login failed"]
  ELSE [logged_in |-> TRUE, client |-> "QF3Client", message |-> "login ok"]

\* A run starts.  The login expander: the button is not pressed, or it is
\* pressed with the three boxes filled or not and the backend answers.
LoginSection ==
  /\ pcA = "login"
  /\ \/ /\ UNCHANGED <<logged_in, client>>
        /\ messages' = {}
        /\ cycle' = NoCycle
     \/ \E filled \in BOOLEAN :
          \E r \in (IF filled THEN LoginResponses ELSE {NoRequest}) :
            LET now == login_handler(filled, r, [logged_in |-> logged_in, client |-> client])
            IN /\ logged_in' = now.logged_in
               /\ client' = now.client
               /\ messages' = {now.message}
               /\ cycle' = [kind |-> "login", filled |-> filled, resp |-> r]
  /\ export' = NoExport
  /\ pcA' = "gate"
  /\ UNCHANGED <<sessionVars, do_query>>
  /\ UNCHANGED nonAppVars

\* `if not st.session_state.logged_in: st.stop()`
Gate ==
  /\ pcA = "gate"
  /\ pcA' = IF logged_in THEN "filters" ELSE "login"
  /\ UNCHANGED <<logged_in, client, sessionVars, do_query, cycle, messages, export>>
  /\ UNCHANGED nonAppVars

\* the reset button: the four fields are cleared and st.rerun() starts a new run
Reset ==
  /\ pcA = "filters"
  /\ head_df' = EmptyDF
  /\ head_rows' = <<>>
  /\ selected_mfgInspectionId' = NoSelection
  /\ line_df' = EmptyDF
  /\ pcA' = "login"
  /\ UNCHANGED <<logged_in, client, do_query, cycle, messages, export>>
  /\ UNCHANGED nonAppVars

\* neither button is pressed in this run
NoButton ==
  /\ pcA = "filters"
  /\ pcA' = "head_table"
  /\ UNCHANGED <<logged_in, client, sessionVars, do_query, cycle, messages, export>>
  /\ UNCHANGED nonAppVars

\* the query button: the handler runs with what the boxes hold and with what
\* the backend answers; the head fetch is reached only after the job-order fetch
Query ==
  /\ pcA = "filters"
  /\ \E q \in AppQueries, fetch_all \in BOOLEAN, jo \in JobOutcomes :
       \E ho \in (IF jo.raised THEN {NotCalled} ELSE HeadOutcomes(fetch_all)) :
         LET ss == do_query_handler(Session, jo, ho, q)
         IN /\ head_rows' = ss.head_rows
            /\ head_df' = ss.head_df
            /\ selected_mfgInspectionId' = ss.selected_mfgInspectionId
            /\ line_df' = ss.line_df
            /\ messages' = IF CycleFails(jo, ho) THEN messages \cup {"query failed"}
                           ELSE messages
            /\ cycle' = [kind |-> "query", q |-> q, fetch_all |-> fetch_all,
                         jobs |-> jo, heads |-> ho]
  /\ do_query' = TRUE
  /\ pcA' = "head_table"
  /\ UNCHANGED <<logged_in, client, export>>
  /\ UNCHANGED nonAppVars

\* the head table: nothing to select in an empty frame; else the row the
\* table reports as selected (0: none) sets the selection
HeadTable ==
  /\ pcA = "head_table"
  /\ IF head_df.columns = <<>> \/ head_df.rows = <<>>
     THEN UNCHANGED selected_mfgInspectionId
     ELSE \E idx \in 0..Len(head_df.rows) :
            IF idx = 0 THEN UNCHANGED selected_mfgInspectionId
            ELSE selected_mfgInspectionId' = <<head_df.rows[idx].mfgInspectionId>>
  /\ pcA' = "line_table"
  /\ UNCHANGED <<logged_in, client, head_rows, head_df, line_df, do_query, cycle,
                 messages, export>>
  /\ UNCHANGED nonAppVars

\* the line table: with a selection, line_list is asked again in every run
LineTable ==
  /\ pcA = "line_table"
  /\ IF selected_mfgInspectionId = NoSelection
     THEN UNCHANGED <<line_df, messages>>
     ELSE \E resp2 \in AppLineResponses :
            IF Raises(resp2)
            THEN /\ messages' = messages \cup {"lines failed"}
                 /\ UNCHANGED line_df
            ELSE /\ line_df' = _df_from_rows(_extract_list(resp2.json), line_cols)
                 /\ UNCHANGED messages
  /\ pcA' = "export"
  /\ UNCHANGED <<logged_in, client, head_rows, head_df, selected_mfgInspectionId,
                 do_query, cycle, export>>
  /\ UNCHANGED nonAppVars

\* _excel_one_sheet_item_then_results run to its end against the line lists lr
RECURSIVE RunExcel(_, _, _, _, _)
RunExcel(hs, lr, i, sheet, rn) ==
  IF i > Len(hs) THEN [raised |-> FALSE, line_reqs |-> i - 1, sheet_rows |-> Len(sheet)]
  ELSE LET h == hs[i]
           a == EmitItemRow(sheet, rn, h)
           resp_l == lr[h.mfgInspectionId]
       IN IF Raises(resp_l) THEN [raised |-> TRUE, line_reqs |-> i, sheet_rows |-> 0]
          ELSE LET b == EmitResults(a.ws, a.row_num, h, _extract_list(resp_l.json))
               IN RunExcel(hs, lr, i + 1, b.ws, b.row_num)

\* (mutant) the handler without `if not heads2: raise`
export_handler_NoEmptyCheck(jo, ho, q, lr) ==
  IF CycleFails(jo, ho)
  THEN [stage |-> "fetch", records |-> 0, shaped |-> FALSE, line_reqs |-> 0,
        sheet_rows |-> 0, download |-> FALSE]
  ELSE LET hs == Heads2(jo, ho, q)
           x == RunExcel(hs, lr, 1, NewSheet, 2)
       IN [stage |-> "report", records |-> Len(hs), shaped |-> TRUE,
           line_reqs |-> x.line_reqs, sheet_rows |-> x.sheet_rows, download |-> ~x.raised]

\* The export handler: everything is fetched again; no record left is an error.
\* stage: where the handler ended (the fetches and the enrichment, the check
\* for no records, the report); records: len(heads2) once it is computed;
\* shaped: _excel_one_sheet_item_then_results was called; line_reqs: the
\* line_list requests sent; download: st.download_button was reached
export_handler(jo, ho, q, lr) ==
  IF CycleFails(jo, ho)
  THEN [stage |-> "fetch", records |-> 0, shaped |-> FALSE, line_reqs |-> 0,
        sheet_rows |-> 0, download |-> FALSE]
  ELSE LET hs == Heads2(jo, ho, q)
       IN IF hs = <<>>
          THEN [stage |-> "empty", records |-> 0, shaped |-> FALSE, line_reqs |-> 0,
                sheet_rows |-> 0, download |-> FALSE]
          ELSE LET x == RunExcel(hs, lr, 1, NewSheet, 2)
               IN [stage |-> "report", records |-> Len(hs), shaped |-> TRUE,
                   line_reqs |-> x.line_reqs, sheet_rows |-> x.sheet_rows,
                   download |-> ~x.raised]

\* all the handler can do, over the item-name box, the fetches and the line lists
ExportOutcomes ==
  {export_handler(jo, ho, q, lr) :
     jo \in JobOutcomes, ho \in AllHeadsOutcomes, q \in AppQueries,
     lr \in [AppPageNums -> AppLineResponses]}

\* the export button, pressed or not; the run ends, and with it the values
\* its buttons had
Export ==
  /\ pcA = "export"
  /\ \/ UNCHANGED <<export, messages>>
     \/ \E x \in ExportOutcomes :
          /\ export' = x
          /\ messages' = messages \cup {IF x.download THEN "export ok" ELSE "export failed"}
  /\ do_query' = FALSE
  /\ cycle' = NoCycle
  /\ pcA' = "login"
  /\ UNCHANGED <<logged_in, client, sessionVars>>
  /\ UNCHANGED nonAppVars

\* init_state() on a fresh session
Init ==
  /\ FetchIdle /\ PureIdle /\ ExcelIdle
  /\ logged_in = FALSE
  /\ client = None
  /\ head_df = EmptyDF
  /\ head_rows = <<>>
  /\ selected_mfgInspectionId = NoSelection
  /\ line_df = EmptyDF
  /\ pcA = "login"
  /\ do_query = FALSE
  /\ cycle = NoCycle
  /\ messages = {}
  /\ export = NoExport

Next ==
  \/ LoginSection
  \/ Gate
  \/ Reset
  \/ NoButton
  \/ Query
  \/ HeadTable
  \/ LineTable
  \/ Export

Spec == Init /\ [][Next]_vars

\* ================================================================== claims
\* ------------------------------------------------------------------ C1
\* the rows of backend page p as the remote sends them
BackendRows(p) ==
  IF backend[p].status = 200 /\ "data" \in DOMAIN backend[p].json
  THEN backend[p].json.data.list ELSE <<>>
NonEmptyPage(p) == backend[p].status = 200 /\ BackendRows(p) # <<>>
EmptyPage(p) == backend[p].status = 200 /\ BackendRows(p) = <<>>

RECURSIVE ConcatPages(_)
ConcatPages(n) == IF n = 0 THEN <<>> ELSE ConcatPages(n - 1) \o BackendRows(n)

\* the backends C1 speaks of: pages 1..k-1 non-empty, page k empty
EndsAt(k) == (\A j \in 1..(k - 1) : NonEmptyPage(j)) /\ EmptyPage(k)

\* the total page p reports: the cnt of its first row, or the page's own row
\* count when that row has no cnt or a cnt of 0
Reported(p) ==
  LET first == BackendRows(p)[1]
  IN IF "cnt" \in DOMAIN first /\ first.cnt # 0 THEN first.cnt ELSE Len(BackendRows(p))

\* the first page by which the rows received reach the total that page
\* reports, or k-1 when there is none
Hits(k) == {p \in 1..(k - 1) : Len(ConcatPages(p)) >= Reported(p)}
StopPage(k) ==
  IF Hits(k) = {} THEN k - 1 ELSE CHOOSE p \in Hits(k) : \A q \in Hits(k) : p <= q

C2_BoundedOrderedRequests ==
  /\ Len(reqs) <= max_pages
  /\ \A i \in 1..Len(reqs) : reqs[i] = i
  /\ pc = "loop" => (Len(reqs) = page - 1 /\ ENABLED FetchNext)
  /\ pc \in {"loop", "returned", "raised"}

\* a loop whose pages never became empty, stopped by the max_pages ceiling
C2_Witness ==
  /\ loop = "items" /\ pc = "returned"
  /\ page > max_pages
  /\ Len(reqs) = max_pages
  /\ \A i \in 1..Len(resps) : extract_rows(resps[i]) # <<>>

\* ------------------------------------------------------------------ C3
\* page 1 of the head list is non-empty and its first row carries a cnt that
\* is at most the number of rows of the page
TotalReachedOnPage1 ==
  /\ loop = "heads"
  /\ NonEmptyPage(1)
  /\ "cnt" \in DOMAIN BackendRows(1)[1]
  /\ BackendRows(1)[1].cnt <= Len(BackendRows(1))

\* C3: if page 1 of the head list is non-empty with r rows and reports a
\* total t <= r, fetch_all_heads issues exactly one page request (page 1) and
\* returns those r rows.
C3_EarlyStop ==
  TotalReachedOnPage1 =>
    /\ Len(reqs) <= 1
    /\ pc # "raised"
    /\ reqs # <<>> => (reqs = <<1>> /\ pc = "returned" /\ all_rows = BackendRows(1))

\* total = number of rows on a full first page, with a second page waiting
C3_Witness ==
  /\ TotalReachedOnPage1
  /\ pc = "returned"
  /\ Len(BackendRows(1)) = MaxRows
  /\ BackendRows(1)[1].cnt = MaxRows
  /\ NonEmptyPage(2)

\* ------------------------------------------------------------------ C4
\* C4: the map of build_job_equipment_map has as keys exactly the non-empty
\* jobName values of the rows processed so far, and each key's value is the
\* workcenter/machine/resource triple of the last processed row carrying
\* that jobName, nothing merged in from earlier rows.
C4_LastWriteWins ==
  loop = "jobs" =>
    /\ mp = lastOf
    /\ "" \notin DOMAIN mp /\ None \notin DOMAIN mp

\* a returned map for which a later row replaced an earlier row's equipment
\* and some received row created no entry
C4_Witness ==
  /\ loop = "jobs" /\ pc = "returned"
  /\ overwrote
  /\ Len(reqs) >= 2
  /\ mp # <<>>
  /\ \E k \in DOMAIN mp : mp[k].resourceName = None

\* ------------------------------------------------------------------ C5
EquipFields == {"workcenterName", "machineName", "resourceName"}
AddedFields == EquipFields \cup {"equipmentDisplay"}

\* C5: attach_equipment_to_heads returns a list as long as its input in which
\* output[i] is input[i] with every field other than the four enrichment
\* fields unchanged and nothing else added, and carries the index's
\* workcenter/machine/resource values when input[i].jobName is a key of the index.
C5_SameRecordsSameOrder ==
  pcP = "returned" =>
    /\ Len(out) = Len(heads)
    /\ \A i \in 1..Len(heads) :
         /\ DOMAIN out[i] = DOMAIN heads[i] \cup AddedFields
         /\ \A k \in DOMAIN heads[i] \ AddedFields : out[i][k] = heads[i][k]
         /\ ("jobName" \in DOMAIN heads[i] /\ heads[i].jobName \in DOMAIN job_mp) =>
              \A f \in EquipFields : out[i][f] = job_mp[heads[i].jobName][f]

\* two records enriched, the first from the index, the second a record that
\* came with a workcenterName of its own
C5_Witness ==
  /\ pcP = "returned"
  /\ Len(heads) = 2
  /\ "jobName" \in DOMAIN heads[1] /\ heads[1].jobName \in DOMAIN job_mp
  /\ "workcenterName" \in DOMAIN heads[2]
  /\ "jobName" \in DOMAIN heads[2] /\ heads[2].jobName \in DOMAIN job_mp
  /\ out[2].workcenterName # "OLD"

\* ------------------------------------------------------------------ C6
Unmatched(h) ==
  \/ "jobName" \notin DOMAIN h
  \/ h.jobName \in {None, ""}
  \/ h.jobName \notin DOMAIN job_mp

\* C6: for every head record whose jobName is absent, empty or not a key of
\* the index, the returned record has workcenterName, machineName and
\* resourceName present with an empty value, never null and never missing,
\* and an empty equipmentDisplay.
C6_EmptyNotNull ==
  pcP = "returned" =>
    \A i \in 1..Len(heads) : Unmatched(heads[i]) =>
      /\ \A f \in EquipFields : f \in DOMAIN out[i] /\ out[i][f] # None /\ out[i][f] = ""
      /\ out[i].equipmentDisplay = <<>>

\* ------------------------------------------------------------------ C7
\* the positions around the pieces of q: before it, after it, and the delimiters
Delims(q) == {0, Len(q) + 1} \cup {i \in 1..Len(q) : q[i] = "%"}
\* the pieces of q split on '%'
Pieces(q) ==
  {SubSeq(q, a + 1, b - 1) :
     <<a, b>> \in {d \in Delims(q) \X Delims(q) :
                     d[1] < d[2] /\ \A m \in Delims(q) : ~(d[1] < m /\ m < d[2])}}
\* a piece without its leading and trailing blanks
Trimmed(piece) ==
  LET ink == {i \in 1..Len(piece) : piece[i] # " "}
  IN IF ink = {} THEN <<>>
     ELSE SubSeq(piece, CHOOSE i \in ink : \A j \in ink : i <= j,
                        CHOOSE i \in ink : \A j \in ink : j <= i)
\* the tokens of q: its non-empty trimmed pieces
TokenSet(q) == {Trimmed(piece) : piece \in Pieces(q)} \ {<<>>}
\* name contains t, letter case ignored
ContainsCI(name, t) ==
  \E k \in 0..(Len(name) - Len(t)) : \A j \in 1..Len(t) : Lower(name[k + j]) = Lower(t[j])
\* the itemName of h, a missing or null one counting as the empty string
NameOrEmpty(h) ==
  IF "itemName" \notin DOMAIN h THEN <<>>
  ELSE IF h.itemName = NoneSeq THEN <<>> ELSE h.itemName
PassesQuery(h) == \A t \in TokenSet(item_name_q) : ContainsCI(NameOrEmpty(h), t)

\* C7: _filter_heads_by_item_name(heads, q) returns exactly the subsequence of
\* heads, in input order, of the records whose itemName (missing or null
\* counting as empty) contains, case-insensitively, every token of q, the
\* tokens being the non-empty whitespace-trimmed pieces of q split on '%'.
C7_ExactSubsequence ==
  pcP = "returned" => out = SelectSeq(heads, PassesQuery)

\* a two-token query that keeps the second of two records and drops the first
C7_Witness ==
  /\ pcP = "returned"
  /\ Cardinality(TokenSet(item_name_q)) = 2
  /\ Len(heads) = 2
  /\ out = <<heads[2]>>
  /\ "itemName" \in DOMAIN heads[1] /\ heads[1].itemName # NoneSeq

\* ------------------------------------------------------------------ C8
\* the query is made of '%' delimiters and whitespace only (the empty query too)
NoTokenQuery == \A i \in 1..Len(item_name_q) : item_name_q[i] \in {"%", " "}

\* C8: for every query that yields zero tokens, _filter_heads_by_item_name
\* returns its input list unchanged: same records, same order, nothing dropped.
C8_NoTokensNoOp ==
  (pcP = "returned" /\ NoTokenQuery) => out = heads

\* the query "%%" on a full list holding a record without itemName
C8_Witness ==
  /\ pcP = "returned"
  /\ item_name_q = <<"%", "%">>
  /\ Len(heads) = MaxHeads
  /\ \E i \in 1..Len(heads) : "itemName" \notin DOMAIN heads[i]
  /\ out = heads

\* ------------------------------------------------------------------ C9
\* d_j: the detail rows fetched for record j
Details(j) == _extract_list(lines[j].json)
MaxOf(a, b) == IF a >= b THEN a ELSE b
\* the sheet rows taken by records 1..j: one item row and max(d,1) rows below it
RECURSIVE RowsUpTo(_)
RowsUpTo(j) == IF j = 0 THEN 0 ELSE RowsUpTo(j - 1) + 1 + MaxOf(Len(Details(j)), 1)
\* the sheet row of the item row of record j
ItemRowAt(j) == 2 + RowsUpTo(j - 1)

\* C9: for N head records where record i has d_i detail rows, the sheet holds
\* after the column-header row exactly N + sum(max(d_i,1)) rows and no blank
\* row; the item row of record i sits at row 2 + sum over j<i of
\* (1 + max(d_j,1)), carries the item fill, and is followed by its d_i detail
\* rows in fetched order, or by one placeholder row when d_i = 0; and row_num
\* is the position of the next item row whenever an iteration starts.  Stated
\* for the records done so far, and for all N when the bytes are returned.
C9_RowLayout ==
  pcX \in {"loop", "returned"} =>
    /\ pcX = "returned" => done = Len(heads2)
    /\ Len(ws) = 1 + RowsUpTo(done)
    /\ row_num = Len(ws) + 1
    /\ row_num = ItemRowAt(done + 1)
    /\ ws[1] = [cells |-> columns, fill |-> "1F4E79"]
    /\ \A r \in 2..Len(ws) : Len(ws[r].cells) = 11 /\ ws[r].cells[1] \in {"ITEM", "CHECK"}
    /\ \A r \in 2..Len(ws) :
         (ws[r].fill = "2F2F2F") = (\E j \in 1..done : r = ItemRowAt(j))
    /\ \A j \in 1..done :
         LET h == heads2[j]
             at == ItemRowAt(j)
             d == Details(j)
         IN /\ ws[at].cells[1] = "ITEM" /\ ws[at].cells = ItemCells(h)
            /\ \A k \in 1..Len(d) :
                 /\ ws[at + k].cells[1] = "CHECK"
                 /\ ws[at + k].cells = ResultCells(h, d[k])
            /\ d = <<>> =>
                 /\ ws[at + 1].cells[1] = "CHECK"
                 /\ ws[at + 1].cells = PlaceholderCells(h)

\* a finished sheet whose first record had no detail rows and whose second had several
C9_Witness ==
  /\ pcX = "returned"
  /\ Len(heads2) = 2
  /\ Details(1) = <<>>
  /\ Len(Details(2)) = 2
  /\ Len(ws) = 1 + 2 + 1 + 2
  /\ ws[4].fill = "2F2F2F"

\* ------------------------------------------------------------------ C10
\* the step is the query handler, and one of its remote calls failed
QueryStepFailed ==
  /\ pcA = "filters" /\ do_query'
  /\ \/ cycle'.jobs.raised
     \/ cycle'.heads.raised
     \/ \E i \in 1..Len(cycle'.heads.value) : cycle'.heads.value[i].jobName = Unhashable
QueryStepSucceeded == pcA = "filters" /\ do_query' /\ ~QueryStepFailed

ExportLeftEmpty == export.stage \in {"empty", "report"} /\ export.records = 0

\* C11: when the export cycle ends up with zero head records after the
\* enrichment and the item-name filter, the export reports an error and makes
\* no spreadsheet: the report writer is not called, no line_list request is
\* sent, and no download is offered.
C11_EmptyExportIsAnError ==
  ExportLeftEmpty =>
    /\ "export failed" \in messages
    /\ "export ok" \notin messages
    /\ ~export.shaped
    /\ export.line_reqs = 0
    /\ export.sheet_rows = 0
    /\ ~export.download

\* an export that was left with no record and stopped there, in a session
\* that is logged in and shows records of an earlier query
C11_Witness ==
  /\ pcA = "login" /\ logged_in
  /\ export.stage = "empty"
  /\ "export failed" \in messages
  /\ head_rows # <<>>

\* ------------------------------------------------------------------ C12
\* C12: in build_job_equipment_map, once a page is processed and the rows
\* received over all pages so far are >= the total that page reports (the cnt
\* of its first row), no further page is requested, also when rows share a
\* jobName or have an empty one: the loop never stands before a next request
\* with the reported total already reached by the rows received.
C12_StopsOnRowsReceived ==
  (loop = "jobs" /\ pc = "loop" /\ page <= max_pages /\ total # <<>>) =>
    recv < total[1]

\* ------------------------------------------------------------------ C13
\* the rows and the total of the j-th item-list answer received
ItemRowsOf(j) == extract_rows(resps[j])
ItemTotalOf(j) == extract_total(resps[j])
\* the rows of answers 1..j, in order
RECURSIVE ItemsUpTo(_)
ItemsUpTo(j) == IF j = 0 THEN <<>> ELSE ItemsUpTo(j - 1) \o ItemRowsOf(j)
\* the total of the first of answers 1..j that reports one
RECURSIVE LatchedAt(_)
LatchedAt(j) ==
  IF j = 0 THEN <<>>
  ELSE IF LatchedAt(j - 1) # <<>> THEN LatchedAt(j - 1) ELSE ItemTotalOf(j)
\* page j meets a stopping condition: the total is known and reached, or the page is short
StopsAt(j) ==
  \/ LatchedAt(j) # <<>> /\ Len(ItemsUpTo(j)) >= LatchedAt(j)[1]
  \/ Len(ItemRowsOf(j)) < limit

\* C13: list_items_all stops after the first page p <= max_pages at which
\* either a total is known and the accumulated row count is >= it, or the
\* page has fewer than limit rows (an empty page included); it returns the
\* rows of pages 1..p in order; the total used is the one of the first
\* response that reported one, and later pages do not replace it.
C13_IndependentStops ==
  loop = "items" =>
    LET n == Len(resps)
    IN /\ all_rows = ItemsUpTo(n)
       /\ total = LatchedAt(n)
       /\ \A j \in 1..(n - 1) : ~StopsAt(j)
       /\ (pc = "loop" /\ n > 0) => ~StopsAt(n)
       /\ (pc = "raised") => (Len(reqs) = n + 1 /\ (n > 0 => ~StopsAt(n)))
       /\ (pc = "returned") =>
            /\ Len(reqs) = n /\ n > 0
            /\ StopsAt(n) \/ n = max_pages

\* two full pages, stopped by the total the first one reported, while the
\* second reported another total that the first page alone had reached
C13_Witness ==
  /\ loop = "items" /\ pc = "returned"
  /\ Len(resps) = 2
  /\ total = <<2 * limit>>
  /\ ItemTotalOf(2) # <<>> /\ ItemTotalOf(2)[1] <= limit
  /\ Len(all_rows) = 2 * limit

LoginAttemptFailed ==
  /\ cycle.kind = "login"
  /\ \/ ~cycle.filled
     \/ cycle.resp.status >= 400
     \/ "success" \notin DOMAIN cycle.resp.json
     \/ cycle.resp.json.success # TRUE

\* C15: after any sequence of login attempts, resets and queries, logged_in is
\* true exactly when client is not None; a failed login attempt ends with
\* logged_in false and client None, also when a session existed before it;
\* and Reset changes neither logged_in nor client.
C15_LoginAndClientAgree ==
  /\ [](/\ logged_in <=> client # None
        /\ LoginAttemptFailed => (~logged_in /\ client = None))
  /\ [][(pcA = "filters" /\ pcA' = "login") =>
          (logged_in' = logged_in /\ client' = client)]_vars

\* a login attempt has just failed on a backend non-success answer, in a
\* session that had been logged in and still holds the records of a query
C15_Witness ==
  /\ pcA = "gate"
  /\ LoginAttemptFailed
  /\ cycle.filled /\ cycle.resp.status = 200
  /\ head_rows # <<>>
  /\ ~logged_in

====
